---- MODULE Spec2Model ----
(***************************************************************************)
(* Model of convert_nndc71.py: a linear script that downloads the NNDC     *)
(* ENDF/B-VII.1 archives, verifies them, extracts them, patches two        *)
(* thermal-scattering tables, converts every record to an HDF5 artifact    *)
(* and writes cross_sections.xml.                                          *)
(*                                                                         *)
(* Text (file names, file contents) is a sequence of one-character         *)
(* strings; a path is a sequence of such names; an archive name or URL is  *)
(* a sequence of tokens split at the dots.                                 *)
(***************************************************************************)
EXTENDS Integers, Sequences, FiniteSets, TLC

\* Number of executions of the script over the same working directory.
MaxRuns == 2

----------------------------------------------------------------------------
(* Strings *)

\* Code points of the characters that occur in file names.
Ord ==
    ("." :> 46) @@ ("1" :> 49) @@ ("H" :> 72) @@ ("a" :> 97) @@ ("b" :> 98) @@
    ("c" :> 99) @@ ("d" :> 100) @@ ("e" :> 101) @@ ("f" :> 102) @@
    ("h" :> 104) @@ ("i" :> 105) @@ ("l" :> 108) @@ ("n" :> 110) @@
    ("o" :> 111) @@ ("p" :> 112) @@ ("r" :> 114) @@ ("t" :> 116) @@
    ("u" :> 117) @@ ("x" :> 120) @@ ("_" :> 95) @@ ("m" :> 109)

\* str.endswith, also used for the anchored tail of a glob pattern.
EndsWith(s, suffix) ==
    /\ Len(s) >= Len(suffix)
    /\ SubSeq(s, Len(s) - Len(suffix) + 1, Len(s)) = suffix

StartsWith(s, prefix) ==
    /\ Len(s) >= Len(prefix)
    /\ SubSeq(s, 1, Len(prefix)) = prefix

\* Python's ordering of str: by code point, a proper prefix first.
RECURSIVE StrLess(_, _)
StrLess(a, b) ==
    IF a = <<>> THEN b # <<>>
    ELSE IF b = <<>> THEN FALSE
    ELSE IF a[1] # b[1] THEN Ord[a[1]] < Ord[b[1]]
    ELSE StrLess(Tail(a), Tail(b))

\* pathlib's ordering of paths: the lists of parts, compared part by part.
RECURSIVE PathLess(_, _)
PathLess(p, q) ==
    IF p = <<>> THEN q # <<>>
    ELSE IF q = <<>> THEN FALSE
    ELSE IF p[1] # q[1] THEN StrLess(p[1], q[1])
    ELSE PathLess(Tail(p), Tail(q))

\* sorted(paths)
RECURSIVE sorted(_)
sorted(S) ==
    IF S = {} THEN <<>>
    ELSE LET m == CHOOSE x \in S : \A y \in S \ {x} : PathLess(x, y)
         IN  <<m>> \o sorted(S \ {m})

\* zip(a, b): stops at the end of the shorter list.
zip(a, b) ==
    LET len == IF Len(a) <= Len(b) THEN Len(a) ELSE Len(b)
    IN  [i \in 1..len |-> <<a[i], b[i]>>]

\* str.replace(old, new, count), scanning from the left; old is not empty.
RECURSIVE str_replace_all(_, _, _, _)
str_replace_all(text, old, new, count) ==
    IF Len(text) < Len(old) THEN text
    ELSE IF StartsWith(text, old)
         THEN new \o str_replace_all(SubSeq(text, Len(old) + 1, Len(text)),
                                     old, new, count)
         ELSE <<Head(text)>> \o str_replace_all(Tail(text), old, new, count)

RECURSIVE str_replace(_, _, _, _)
str_replace(text, old, new, count) ==
    IF count = 0 \/ Len(text) < Len(old) THEN text
    ELSE IF StartsWith(text, old)
         THEN new \o str_replace(SubSeq(text, Len(old) + 1, Len(text)),
                                 old, new, count - 1)
         ELSE <<Head(text)>> \o str_replace(Tail(text), old, new, count)

----------------------------------------------------------------------------
(* Names *)

H_ace == <<"H", ".", "a", "c", "e">>
u_ace == <<"u", ".", "a", "c", "e">>
one_ace == <<"1", ".", "a", "c", "e">>
bebeo_acer == <<"b", "e", "b", "e", "o", ".", "a", "c", "e", "r">>
obeo_acer == <<"o", "b", "e", "o", ".", "a", "c", "e", "r">>
a_endf == <<"a", ".", "e", "n", "d", "f">>
b_endf == <<"b", ".", "e", "n", "d", "f">>
photoat == <<"p", "h", "o", "t", "o", "a", "t">>
atomic_relax == <<"a", "t", "o", "m", "i", "c", "_", "r", "e", "l", "a", "x">>

neutron_tar_gz ==
    <<"ENDF-B-VII", ".", "1-neutron-293", ".", "6K", ".", "tar", ".", "gz">>
tsl_tar_gz == <<"ENDF-B-VII", ".", "1-tsl", ".", "tar", ".", "gz">>
photoat_zip == <<"ENDF-B-VII", ".", "1-photoat", ".", "zip">>
atomic_relax_zip == <<"ENDF-B-VII", ".", "1-atomic_relax", ".", "zip">>
fixture_tar_gz == <<"fixture-neutron", ".", "tar", ".", "gz">>
fixture_zip == <<"fixture-photon", ".", "zip">>

----------------------------------------------------------------------------
(* The release table *)

ReleaseB71 ==
    [neutron |->
        [base_url |-> "http://www.nndc.bnl.gov/endf/b7.1/aceFiles/",
         compressed_files |-> <<neutron_tar_gz, tsl_tar_gz>>,
         checksums |-> <<"9729a17eb62b75f285d8a7628ace1449",
                         "e17d827c92940a30f22f096d910ea186">>,
         file_type |-> "ace"],
     photon |->
        [base_url |-> "http://www.nndc.bnl.gov/endf/b7.1/zips/",
         compressed_files |-> <<photoat_zip, atomic_relax_zip>>,
         file_type |-> "endf"]]

\* A release entry pointing at two fixture archives, one per particle, each
\* with a precomputed checksum.
ReleaseFixture ==
    [neutron |->
        [base_url |-> "file:///fixtures/",
         compressed_files |-> <<fixture_tar_gz>>,
         checksums |-> <<"md5-of-fixture-neutron">>,
         file_type |-> "ace"],
     photon |->
        [base_url |-> "file:///fixtures/",
         compressed_files |-> <<fixture_zip>>,
         checksums |-> <<"md5-of-fixture-photon">>,
         file_type |-> "endf"]]

release_details == [b71 |-> ReleaseB71, fixture |-> ReleaseFixture]

\* The checksum the table declares for archive f of a particle, if any.
HasChecksum(rel, particle, f) ==
    /\ "checksums" \in DOMAIN release_details[rel][particle]
    /\ \E i \in DOMAIN release_details[rel][particle].compressed_files :
          /\ release_details[rel][particle].compressed_files[i] = f
          /\ i \in DOMAIN release_details[rel][particle].checksums

DeclaredChecksum(rel, particle, f) ==
    LET d == release_details[rel][particle]
        i == CHOOSE k \in DOMAIN d.compressed_files : d.compressed_files[k] = f
    IN  d.checksums[i]

\* url = base_url + f; the download is saved under the URL's base name.
Url(base_url, f) == <<base_url>> \o f
Basename(url) == Tail(url)

----------------------------------------------------------------------------
(* Command line *)

\* -p/--particles: one or more of the two choices, in the order given; a
\* choice may be given twice.
ParticleLists ==
    {<<"neutron">>, <<"photon">>, <<"neutron", "photon">>, <<"photon", "neutron">>,
     <<"neutron", "neutron">>, <<"photon", "photon">>}

Args == [download : BOOLEAN, extract : BOOLEAN, particles : ParticleLists]

Selected(a, particle) == \E i \in DOMAIN a.particles : a.particles[i] = particle

----------------------------------------------------------------------------
(* What the server holds: archives and the record files inside them *)

Record(name, text) == [ok |-> TRUE, name |-> name, text |-> text]
Malformed == [ok |-> FALSE, name |-> "", text |-> <<>>]
Archive(md5, format, members) ==
    [md5 |-> md5, format |-> format, members |-> members]

BebeoTexts ==
    <<  <<"8", "8", "0", "1", "6", "x", "8", "0", "1", "6">>,
        <<"x", "8", "0", "1", "6">>,
        <<"8", "0", "1", " ", "6">>  >>
ObeoTexts ==
    <<  <<"4", "0", "0", "9">>,
        <<"4", "0", "0", "9", "4", "0", "0", "9", " ", "4", "0", "0", "9">>,
        <<"4", "0", "9">>  >>

NeutronArchives ==
    { Archive("9729a17eb62b75f285d8a7628ace1449", "tar",
              (<<H_ace>> :> Record("H1", <<>>)) @@
              (<<u_ace>> :> Record("U235", <<>>)) @@
              (<<one_ace>> :> Record("He4", <<>>))),
      Archive("00000000000000000000000000000000", "tar",
              (<<H_ace>> :> Record("H1", <<>>)) @@ (<<u_ace>> :> Malformed)) }

TslArchives ==
    { Archive("e17d827c92940a30f22f096d910ea186", "tar",
              (<<bebeo_acer>> :> Record("c_Be_in_BeO", BebeoTexts[i])) @@
              (<<obeo_acer>> :> Record("c_O_in_BeO", ObeoTexts[i]))) : i \in 1..3 }
    \cup
    { Archive("ffffffffffffffffffffffffffffffff", "tar",
              (<<bebeo_acer>> :> Record("c_Be_in_BeO", BebeoTexts[2]))) }

EndfMembers(dir, names) ==
    [p \in {<<dir, name>> : name \in names} |->
        Record(IF p[2] = a_endf THEN "H" ELSE "He", <<>>)]

PhotoatArchives ==
    { Archive("", "zip", EndfMembers(photoat, names)) :
        names \in {{a_endf}, {a_endf, b_endf}} }

AtomicRelaxArchives ==
    { Archive("", "zip", EndfMembers(atomic_relax, names)) :
        names \in {{a_endf}, {a_endf, b_endf}} }
    \cup
    { Archive("", "tar", EndfMembers(atomic_relax, {a_endf})) }

\* Fixture archives: each of the one-record archives, and archives holding
\* what the patch and the photon pairing read.
FixtureNeutronArchives ==
    { Archive("md5-of-fixture-neutron", "tar", m) :
        m \in { <<H_ace>> :> Record("H1", <<>>),
                <<bebeo_acer>> :> Record("c_Be_in_BeO", BebeoTexts[2]),
                <<obeo_acer>> :> Record("c_O_in_BeO", ObeoTexts[1]),
                (<<bebeo_acer>> :> Record("c_Be_in_BeO", BebeoTexts[2])) @@
                (<<obeo_acer>> :> Record("c_O_in_BeO", ObeoTexts[1])) } }

FixturePhotonArchives ==
    { Archive("md5-of-fixture-photon", "zip", m) :
        m \in { EndfMembers(photoat, {a_endf}),
                EndfMembers(atomic_relax, {a_endf}),
                EndfMembers(photoat, {a_endf}) @@
                EndfMembers(atomic_relax, {a_endf}) } }

\* The servers a run can meet, per release: URL -> archive.
Remotes(rel) ==
    IF rel = "b71"
    THEN { (Url(ReleaseB71.neutron.base_url, neutron_tar_gz) :> n1) @@
           (Url(ReleaseB71.neutron.base_url, tsl_tar_gz) :> n2) @@
           (Url(ReleaseB71.photon.base_url, photoat_zip) :> p1) @@
           (Url(ReleaseB71.photon.base_url, atomic_relax_zip) :> p2) :
             n1 \in NeutronArchives, n2 \in TslArchives,
             p1 \in PhotoatArchives, p2 \in AtomicRelaxArchives }
    ELSE { (Url(ReleaseFixture.neutron.base_url, fixture_tar_gz) :> n1) @@
           (Url(ReleaseFixture.photon.base_url, fixture_zip) :> p1) :
             n1 \in FixtureNeutronArchives, p1 \in FixturePhotonArchives }

\* hashlib.md5(bytes).hexdigest()
md5(archive) == archive.md5

----------------------------------------------------------------------------
(* Globs of the release table *)

\* The character class [aA-zZ]: 'a', the range 'A'..'z', 'Z'.
InClass(c) == c = "a" \/ (65 <= Ord[c] /\ Ord[c] <= 122) \/ c = "Z"

\* '[aA-zZ]*.ace'
MatchAce(name) ==
    /\ Len(name) >= 5
    /\ InClass(name[1])
    /\ EndsWith(name, <<".", "a", "c", "e">>)

\* '*.acer'
MatchAcer(name) == EndsWith(name, <<".", "a", "c", "e", "r">>)

\* '*.endf'
MatchEndf(name) == EndsWith(name, <<".", "e", "n", "d", "f">>)

\* Match of a file name against one of the table's patterns.
fnmatch(name, pattern) ==
    CASE pattern = "[aA-zZ]*.ace" -> MatchAce(name)
      [] pattern = "*.acer" -> MatchAcer(name)
      [] pattern = "*.endf" -> MatchEndf(name)

\* Path.rglob(pattern) below the directory `sub` of a tree.
rglob(tree, sub, pattern) ==
    { p \in DOMAIN tree :
        /\ Len(p) > Len(sub)
        /\ StartsWith(p, sub)
        /\ fnmatch(p[Len(p)], pattern) }

ace_files(d) == rglob(d.ace_files_dir, <<>>, "[aA-zZ]*.ace")
sab_files(d) == rglob(d.ace_files_dir, <<>>, "*.acer")
photo_files(d) == rglob(d.endf_files_dir, <<photoat>>, "*.endf")
atom_files(d) == rglob(d.endf_files_dir, <<atomic_relax>>, "*.endf")

----------------------------------------------------------------------------
(* State *)

VARIABLES
    args,       \* parsed command line of the current run
    release,    \* key of the release table in use
    remote,     \* URL -> archive the server holds
    cwd,        \* working directory: archive name -> downloaded archive
    disk,       \* the two extraction directories: path -> record file
    dest_dirs,  \* particle directories under args.destination
    dest_files, \* HDF5 files under args.destination
    xml,        \* cross_sections.xml under args.destination
    library,    \* the DataLibrary being built
    pc,         \* section of the script being executed
    n,          \* position in the section's loop
    pending,    \* rest of the sorted file list of the current conversion loop
    error,      \* the uncaught exception, if any
    log,        \* operations performed by the current run, in order
    run,        \* number of the current run
    prev        \* how the previous run ended

vars == <<args, release, remote, cwd, disk, dest_dirs, dest_files, xml,
          library, pc, n, pending, error, log, run, prev>>

\* The S(a,b) tables to patch: (table, old, new).
fixes ==
    <<  <<bebeo_acer, <<"8", "0", "1", "6">>, <<" ", " ", " ", "0">> >>,
        <<obeo_acer, <<"4", "0", "0", "9">>, <<" ", " ", " ", "0">> >>  >>

\* for particle in args.particles: for f in ...['compressed_files']
RECURSIVE ArchiveList(_, _)
ArchiveList(rel, particles) ==
    IF particles = <<>> THEN <<>>
    ELSE LET fs == release_details[rel][Head(particles)].compressed_files
         IN  [i \in DOMAIN fs |-> <<Head(particles), fs[i]>>]
                 \o ArchiveList(rel, Tail(particles))

\* The two neutron record classes listed in the other order.
RECURSIVE ConvertLoopsThermalFirst(_)
ConvertLoopsThermalFirst(particles) ==
    IF particles = <<>> THEN <<>>
    ELSE (IF Head(particles) = "neutron"
          THEN <<[particle |-> "neutron", cls |-> "ThermalScattering",
                  files |-> "sab_files"],
                 [particle |-> "neutron", cls |-> "IncidentNeutron",
                  files |-> "ace_files"]>>
          ELSE <<[particle |-> "photon", cls |-> "IncidentPhoton",
                  files |-> "photo_files"]>>)
         \o ConvertLoopsThermalFirst(Tail(particles))

\* The conversion loops, in order: per particle, per record class.
RECURSIVE ConvertLoops(_)
ConvertLoops(particles) ==
    IF particles = <<>> THEN <<>>
    ELSE (IF Head(particles) = "neutron"
          THEN <<[particle |-> "neutron", cls |-> "IncidentNeutron",
                  files |-> "ace_files"],
                 [particle |-> "neutron", cls |-> "ThermalScattering",
                  files |-> "sab_files"]>>
          ELSE <<[particle |-> "photon", cls |-> "IncidentPhoton",
                  files |-> "photo_files"]>>)
         \o ConvertLoops(Tail(particles))

\* The list conversion loop k iterates over, evaluated when the loop starts.
\* The table holds one generator per glob: a loop that finds its generator
\* already consumed by an earlier loop of the run iterates over nothing.
LoopItems(loops, k, d) ==
    IF \E j \in 1..(k - 1) : loops[j].files = loops[k].files THEN <<>>
    ELSE CASE loops[k].files = "ace_files" -> sorted(ace_files(d))
           [] loops[k].files = "sab_files" -> sorted(sab_files(d))
           [] loops[k].files = "photo_files" ->
                 zip(sorted(photo_files(d)), sorted(atom_files(d)))

\* The iterations of each section before the conversion.
StageList(a, rel, st) ==
    CASE st = "download" ->
            IF a.download THEN ArchiveList(rel, a.particles) ELSE <<>>
      [] st = "verify" -> IF a.download THEN a.particles ELSE <<>>
      [] st = "extract" ->
            IF a.extract THEN ArchiveList(rel, a.particles) ELSE <<>>
      [] st = "patch" -> IF Selected(a, "neutron") THEN fixes ELSE <<>>
      [] st = "mkdir" -> a.particles

\* The extraction section placed before the verification section.
NextStageExtractFirst(st) ==
    CASE st = "download" -> "extract"
      [] st = "extract" -> "verify"
      [] st = "verify" -> "patch"
      [] st = "patch" -> "mkdir"
      [] st = "mkdir" -> "convert"

NextStage(st) ==
    CASE st = "download" -> "verify"
      [] st = "verify" -> "extract"
      [] st = "extract" -> "patch"
      [] st = "patch" -> "mkdir"
      [] st = "mkdir" -> "convert"

\* Where control is when asked for iteration k of section st: sections and
\* loops with nothing (left) to do are fallen through.
RECURSIVE Position(_, _, _, _, _)
Position(a, rel, st, k, d) ==
    IF st = "convert"
    THEN IF k > Len(ConvertLoops(a.particles))
         THEN [pc |-> "write", n |-> 1, pending |-> <<>>]
         ELSE LET items == LoopItems(ConvertLoops(a.particles), k, d)
              IN  IF items = <<>>
                  THEN Position(a, rel, "convert", k + 1, d)
                  ELSE [pc |-> "convert", n |-> k, pending |-> items]
    ELSE IF k <= Len(StageList(a, rel, st))
         THEN [pc |-> st, n |-> k, pending |-> <<>>]
         ELSE Position(a, rel, NextStage(st), 1, d)

Goto(pos) == pc' = pos.pc /\ n' = pos.n /\ pending' = pos.pending

Entry(stage, op, arg, result) ==
    [stage |-> stage, op |-> op, arg |-> arg, result |-> result]

\* An uncaught exception ends the run.
Raise(exc, entry) ==
    /\ pc' = "aborted"
    /\ error' = exc
    /\ log' = Append(log, entry)
    /\ UNCHANGED <<n, pending>>

NoPrev == [completed |-> FALSE, particles |-> <<>>, ace |-> <<>>, dest |-> {}]

\* A first run in an empty working directory.
InitWith(rel) ==
    /\ args \in Args
    /\ release = rel
    /\ remote \in Remotes(release)
    /\ cwd = <<>>
    /\ disk = [ace_files_dir |-> <<>>, endf_files_dir |-> <<>>]
    /\ dest_dirs = {}
    /\ dest_files = {}
    /\ xml = [exists |-> FALSE, libraries |-> <<>>]
    /\ library = <<>>
    /\ LET pos == Position(args, release, "download", 1, disk)
       IN  pc = pos.pc /\ n = pos.n /\ pending = pos.pending
    /\ error = "none"
    /\ log = <<>>
    /\ run = 1
    /\ prev = NoPrev

\* release = 'b7.1'
Init == InitWith("b71")

\* The script with release set to the fixture entry.
InitFixture == InitWith("fixture")

----------------------------------------------------------------------------
(* The sections of the script, one loop iteration per step *)

\* DOWNLOAD FILES FROM NNDC SITE
Download ==
    /\ pc = "download"
    /\ LET item == StageList(args, release, "download")[n]
           particle == item[1]
           f == item[2]
           url == Url(release_details[release][particle].base_url, f)
       IN  \/ /\ cwd' = (Basename(url) :> remote[url]) @@ cwd
              /\ log' = Append(log, Entry(2, "download", f, "ok"))
              /\ Goto(Position(args, release, "download", n + 1, disk))
              /\ UNCHANGED error
           \/ /\ Raise("URLError", Entry(2, "download", f, "raise"))
              /\ UNCHANGED cwd
    /\ UNCHANGED <<args, release, remote, disk, dest_dirs, dest_files, xml,
                   library, run, prev>>

\* Some archive of the particle with a declared checksum has another digest.
Mismatch(rel, particle, files) ==
    \E i \in DOMAIN release_details[rel][particle].compressed_files :
        LET f == release_details[rel][particle].compressed_files[i]
        IN  /\ HasChecksum(rel, particle, f)
            /\ f \in DOMAIN files
            /\ md5(files[f]) # DeclaredChecksum(rel, particle, f)

\* VERIFY MD5 CHECKSUMS: the test looks for 'checksums' among the keys of
\* release_details[release], which are the particle names.
Verify ==
    /\ pc = "verify"
    /\ LET particle == StageList(args, release, "verify")[n]
           seen == [particle |-> particle,
                    mismatch |-> Mismatch(release, particle, cwd)]
       IN  IF "checksums" \in DOMAIN release_details[release]
           THEN Raise("KeyError", Entry(3, "verify", seen, "raise"))
           ELSE /\ log' = Append(log, Entry(3, "verify", seen, "ok"))
                /\ Goto(Position(args, release, "verify", n + 1, disk))
                /\ UNCHANGED error
    /\ UNCHANGED <<args, release, remote, cwd, disk, dest_dirs, dest_files,
                   xml, library, run, prev>>

ExtractionDir(file_type, files) ==
    CASE file_type = "ace" -> "ace_files_dir"
      [] file_type = "endf" -> "endf_files_dir"

\* The routine chosen by what the file holds instead of by its name.
RoutineByContent(f, files) ==
    IF f \in DOMAIN files THEN files[f].format ELSE "tar"

\* f.endswith('.zip') selects zipfile, anything else tarfile.
Routine(f, files) == IF EndsWith(f, <<".", "zip">>) THEN "zip" ELSE "tar"

\* EXTRACT FILES FROM TGZ
Extract ==
    /\ pc = "extract"
    /\ LET item == StageList(args, release, "extract")[n]
           particle == item[1]
           f == item[2]
           dir == ExtractionDir(release_details[release][particle].file_type, cwd)
           routine == Routine(f, cwd)
           what == [particle |-> particle, f |-> f, routine |-> routine,
                    dir |-> dir,
                    md5 |-> IF f \in DOMAIN cwd THEN md5(cwd[f]) ELSE ""]
       IN  IF f \notin DOMAIN cwd
           THEN /\ Raise("FileNotFoundError", Entry(4, "extract", what, "raise"))
                /\ UNCHANGED disk
           ELSE IF cwd[f].format # routine
           THEN /\ Raise(IF routine = "zip" THEN "BadZipFile" ELSE "ReadError",
                         Entry(4, "extract", what, "raise"))
                /\ UNCHANGED disk
           ELSE /\ disk' = [disk EXCEPT ![dir] = cwd[f].members @@ @]
                /\ log' = Append(log, Entry(4, "extract", what, "ok"))
                /\ Goto(Position(args, release, "extract", n + 1, disk'))
                /\ UNCHANGED error
    /\ UNCHANGED <<args, release, remote, cwd, dest_dirs, dest_files, xml,
                   library, run, prev>>

\* FIX ZAID ASSIGNMENTS FOR VARIOUS S(A,B) TABLES
Patch ==
    /\ pc = "patch"
    /\ LET table == fixes[n][1]
           old == fixes[n][2]
           new == fixes[n][3]
           filename == <<table>>
       IN  IF filename \notin DOMAIN disk.ace_files_dir
           THEN /\ Raise("FileNotFoundError", Entry(5, "patch", table, "raise"))
                /\ UNCHANGED disk
           ELSE /\ disk' = [disk EXCEPT !.ace_files_dir[filename].text =
                                            str_replace(@, old, new, 1)]
                /\ log' = Append(log, Entry(5, "patch", table, "ok"))
                /\ Goto(Position(args, release, "patch", n + 1, disk'))
                /\ UNCHANGED error
    /\ UNCHANGED <<args, release, remote, cwd, dest_dirs, dest_files, xml,
                   library, run, prev>>

\* Create output directory if it doesn't exist
Mkdir ==
    /\ pc = "mkdir"
    /\ LET particle == StageList(args, release, "mkdir")[n]
       IN  /\ dest_dirs' = dest_dirs \cup {particle}
           /\ log' = Append(log, Entry(6, "mkdir", particle, "ok"))
    /\ Goto(Position(args, release, "mkdir", n + 1, disk))
    /\ UNCHANGED <<args, release, remote, cwd, disk, dest_files, xml, library,
                   error, run, prev>>

\* h5_file = args.destination.joinpath(particle, data.name + '.h5')
H5File(particle, name) == <<particle, name, ".h5">>

\* The record one iteration parses: from_ace(path) or from_endf(photo, atom).
Parsed(loop, item, d) ==
    IF loop.particle = "neutron"
    THEN d.ace_files_dir[item]
    ELSE IF d.endf_files_dir[item[1]].ok /\ d.endf_files_dir[item[2]].ok
         THEN d.endf_files_dir[item[1]]
         ELSE Malformed

\* An export that is not registered.
RegisterNothing(lib, h5_file) == lib

\* library.register_file(h5_file)
register_file(lib, h5_file) == Append(lib, h5_file)

\* GENERATE HDF5 LIBRARY: parse one record, export it, register it.
Convert ==
    /\ pc = "convert"
    /\ LET loop == ConvertLoops(args.particles)[n]
           item == Head(pending)
           data == Parsed(loop, item, disk)
           h5_file == H5File(loop.particle, data.name)
           what == [particle |-> loop.particle, cls |-> loop.cls, item |-> item]
       IN  IF ~data.ok
           THEN /\ Raise("ValueError", Entry(6, "parse", what, "raise"))
                /\ UNCHANGED <<dest_files, library>>
           ELSE /\ dest_files' = dest_files \cup {h5_file}
                /\ library' = register_file(library, h5_file)
                /\ log' = log \o <<Entry(6, "parse", what, "ok"),
                                   Entry(6, "export_to_hdf5", h5_file, "ok"),
                                   Entry(6, "register_file", h5_file, "ok")>>
                /\ IF Tail(pending) # <<>>
                   THEN pending' = Tail(pending) /\ UNCHANGED <<pc, n>>
                   ELSE Goto(Position(args, release, "convert", n + 1, disk))
                /\ UNCHANGED error
    /\ UNCHANGED <<args, release, remote, cwd, disk, dest_dirs, xml, run, prev>>

\* Write cross_sections.xml
WriteXml ==
    /\ pc = "write"
    /\ xml' = [exists |-> TRUE, libraries |-> library]
    /\ log' = Append(log, Entry(7, "export_to_xml", library, "ok"))
    /\ pc' = "done"
    /\ UNCHANGED <<args, release, remote, cwd, disk, dest_dirs, dest_files,
                   library, n, pending, error, run, prev>>

\* The script is run again in the same working directory.
Rerun ==
    /\ pc \in {"done", "aborted"}
    /\ run < MaxRuns
    /\ run' = run + 1
    /\ prev' = [completed |-> pc = "done", particles |-> args.particles,
                ace |-> disk.ace_files_dir, dest |-> dest_files]
    /\ args' \in Args
    /\ library' = <<>>
    /\ log' = <<>>
    /\ error' = "none"
    /\ Goto(Position(args', release, "download", 1, disk))
    /\ UNCHANGED <<release, remote, cwd, disk, dest_dirs, dest_files, xml>>

Next ==
    \/ Download
    \/ Verify
    \/ Extract
    \/ Patch
    \/ Mkdir
    \/ Convert
    \/ WriteXml
    \/ Rerun

Spec == Init /\ [][Next]_vars

SpecFixture == InitFixture /\ [][Next]_vars

----------------------------------------------------------------------------
(* Properties *)

Range(s) == {s[i] : i \in DOMAIN s}

\* Positions of the log holding operation op.
Ops(op) == {i \in DOMAIN log : log[i].op = op}

\* Artifacts exported so far by the current run, in order.
RECURSIVE ExportedIn(_)
ExportedIn(l) ==
    IF l = <<>> THEN <<>>
    ELSE IF Head(l).op = "export_to_hdf5"
         THEN <<Head(l).arg>> \o ExportedIn(Tail(l))
         ELSE ExportedIn(Tail(l))

\* Positions where old occurs in text.
Occurrences(text, old) ==
    {i \in 1..(Len(text) - Len(old) + 1) : SubSeq(text, i, i + Len(old) - 1) = old}

\* text with the leftmost occurrence of old (if any) replaced by new.
FirstReplaced(text, old, new) ==
    IF Occurrences(text, old) = {} THEN text
    ELSE LET i == CHOOSE k \in Occurrences(text, old) :
                      \A m \in Occurrences(text, old) : k <= m
         IN  SubSeq(text, 1, i - 1) \o new
                 \o SubSeq(text, i + Len(old), Len(text))

\* C3: a step of the patch section that does not fail rewrites the text of
\* the table of the current fixes entry to the text with only the leftmost
\* occurrence of old replaced by new (the same text when old does not occur)
\* and changes no other file and nothing else about that file.
C3_PatchReplacesFirstOccurrenceOnly ==
    [][(pc = "patch" /\ pc' # "aborted") =>
         LET filename == <<fixes[n][1]>>
             before == disk.ace_files_dir[filename]
         IN  /\ disk' = [disk EXCEPT !.ace_files_dir[filename] =
                           [before EXCEPT !.text =
                              FirstReplaced(before.text, fixes[n][2], fixes[n][3])]]
             /\ UNCHANGED <<cwd, dest_files, xml>>]_vars

\* A table that held old twice has been patched: the first occurrence is
\* replaced and the second is still there.
C3_Witness ==
    /\ run = 1
    /\ \E i \in Ops("patch") : log[i].arg = bebeo_acer /\ log[i].result = "ok"
    /\ disk.ace_files_dir[<<bebeo_acer>>].text =
           <<"8", " ", " ", " ", "0", "x", "8", "0", "1", "6">>

\* C5: the operations of a run occur in section order (download, verify,
\* extract, patch, convert/export, manifest), and writing the manifest is
\* the last operation.
C5_StageOrder ==
    /\ \A i, j \in DOMAIN log : i < j => log[i].stage <= log[j].stage
    /\ \A i \in Ops("export_to_xml") : i = Len(log)

\* A completed run that performed operations of every section.
C5_Witness ==
    /\ pc = "done"
    /\ \A op \in {"download", "verify", "extract", "patch", "export_to_hdf5",
                  "export_to_xml"} : Ops(op) # {}

ParticleIndex(particle) ==
    CHOOSE i \in DOMAIN args.particles : args.particles[i] = particle

\* C7: the library holds the exported paths in export order, every export is
\* followed at once by the registration of its path and nothing else is
\* registered; exports follow the order of the selected particles and, for
\* neutron, primary tables in path order come before thermal-scattering
\* tables in path order; the manifest written is that library.
C7_ManifestInExportOrder ==
    /\ library = ExportedIn(log)
    /\ \A i \in Ops("export_to_hdf5") :
          /\ i + 1 \in Ops("register_file")
          /\ log[i + 1].arg = log[i].arg
    /\ \A i \in Ops("register_file") : i - 1 \in Ops("export_to_hdf5")
    /\ \A i, j \in Ops("parse") :
          i < j =>
            /\ ParticleIndex(log[i].arg.particle) <= ParticleIndex(log[j].arg.particle)
            /\ (log[i].arg.particle = "neutron" /\ log[j].arg.particle = "neutron") =>
                 \/ log[i].arg.cls = "IncidentNeutron" /\ log[j].arg.cls = "ThermalScattering"
                 \/ log[i].arg.cls = log[j].arg.cls
                      /\ PathLess(log[i].arg.item, log[j].arg.item)
    /\ pc = "done" => xml.libraries = ExportedIn(log)

\* A completed run over photon, then neutron, with two artifacts of each
\* kind, has written them in that order.
C7_Witness ==
    /\ pc = "done"
    /\ args.particles = <<"photon", "neutron">>
    /\ xml.libraries = <<H5File("photon", "H"), H5File("photon", "He"),
                         H5File("neutron", "H1"), H5File("neutron", "U235"),
                         H5File("neutron", "c_Be_in_BeO"),
                         H5File("neutron", "c_O_in_BeO")>>

\* Number of times a particle is given in the selection.
Times(particle) ==
    Cardinality({k \in DOMAIN args.particles : args.particles[k] = particle})

C4_ManifestEqualsDestinationTree ==
    pc = "done" => Range(xml.libraries) = dest_files

\* C4 as amended: after a run that completes, the paths in the manifest are
\* exactly the artifacts this run exported, all of them present under the
\* destination tree; artifacts the tree held before the run stay there, so
\* the manifest equals the tree's artifacts when the tree held none that this
\* run did not export again.
C4_ManifestEqualsArtifactsOfThisRun ==
    pc = "done" =>
        /\ Range(xml.libraries) = Range(ExportedIn(log))
        /\ dest_files = prev.dest \cup Range(xml.libraries)
        /\ prev.dest \subseteq Range(xml.libraries) =>
              Range(xml.libraries) = dest_files

\* A second run over a destination holding artifacts of the first, which it
\* does not export again, has written its manifest.
C4_Witness ==
    /\ pc = "done"
    /\ run = 2
    /\ xml.libraries # <<>>
    /\ prev.dest \ Range(xml.libraries) # {}

\* C1: with download enabled, no archive with a declared checksum is
\* extracted while its MD5 digest differs from the declared one.
C1_NoExtractionOfMismatchedArchive ==
    args.download =>
        \A i \in Ops("extract") :
            HasChecksum(release, log[i].arg.particle, log[i].arg.f) =>
                log[i].arg.md5 =
                    DeclaredChecksum(release, log[i].arg.particle, log[i].arg.f)

\* C2: when the photoatomic and atomic-relaxation file lists differ in
\* length, a run with photon selected converts no pair and does not complete.
C2_PhotonCountMismatchFails ==
    (Selected(args, "photon")
        /\ Cardinality(photo_files(disk)) # Cardinality(atom_files(disk))) =>
        /\ pc # "done"
        /\ \A i \in Ops("parse") : log[i].arg.particle # "photon"

\* An operation of the run failed: it raised, or the verification section
\* passed over an archive whose digest differs from the declared checksum.
Failed(e) == e.result = "raise" \/ (e.op = "verify" /\ e.arg.mismatch)

\* C6: a failed operation is the last operation of its run, and the run
\* writes no manifest.
C6_FailureHaltsRun ==
    \A i \in DOMAIN log :
        Failed(log[i]) => (i = Len(log) /\ Ops("export_to_xml") = {})

\* C8: a first full run on the fixture release, each archive holding one
\* known-good record, with both particles selected, whose downloads succeed,
\* does not abort, and when it is done there is one artifact under each
\* particle directory and the manifest lists those two.
C8_FixtureRunProducesOneArtifactPerParticle ==
    (/\ release = "fixture"
     /\ \A url \in DOMAIN remote :
           /\ Cardinality(DOMAIN remote[url].members) = 1
           /\ \A path \in DOMAIN remote[url].members : remote[url].members[path].ok
     /\ run = 1
     /\ args.download /\ args.extract
     /\ Selected(args, "neutron") /\ Selected(args, "photon")
     /\ error # "URLError") =>
        /\ pc # "aborted"
        /\ pc = "done" =>
              /\ \A particle \in {"neutron", "photon"} :
                    Cardinality({h \in dest_files : h[1] = particle}) = 1
              /\ Range(xml.libraries) = dest_files
              /\ Len(xml.libraries) = 2

\* C10: in a re-run with neutron selected and download and extraction off,
\* after a completed run that patched the tables, every table patched again
\* has the text it had at the end of the previous run.
C10_RerunLeavesPatchedTablesAlone ==
    (/\ run >= 2
     /\ prev.completed
     /\ \E k \in DOMAIN prev.particles : prev.particles[k] = "neutron"
     /\ Selected(args, "neutron")
     /\ ~args.download /\ ~args.extract) =>
        \A i \in Ops("patch") :
            log[i].result = "ok" =>
                disk.ace_files_dir[<<log[i].arg>>].text =
                    prev.ace[<<log[i].arg>>].text

====
